---- MODULE Spec2Model ----
(***************************************************************************)
(* The cells runtime of golib: cells (cells/cell.go) with their supervised *)
(* backend loop, and the environment facade (cells/environment.go).        *)
(*                                                                         *)
(* The registry, the event queue and the supervised loop package are part  *)
(* of the library but not of the source at hand; they are modelled from    *)
(* their contracts in the specification (sections 3, 4.2, 4.3, 4.5).       *)
(***************************************************************************)
EXTENDS Naturals, Integers, Sequences, FiniteSets, TLC

(***************************************************************************)
(* Bounds of the model.                                                    *)
(***************************************************************************)
\* capacity of a cell's bounded event queue
QueueCap == 2
\* events of one producer to one cell are numbered modulo SeqMod
SeqMod == 2
\* the runs of cleanup of one cell are counted up to MaxCleanups
MaxCleanups == 2

(***************************************************************************)
(* Program constants.                                                      *)
(***************************************************************************)
\* rs.Frequency(12, time.Minute) and rs.Trim(12)
RecoverLimit == 12
\* time.Minute, in seconds
Minute == 60
\* make(chan interface{}, 1) in Request
ResponseChanCap == 1

(***************************************************************************)
(* Identifiers.                                                            *)
(***************************************************************************)
Cells == {"a", "b", "c"}
\* flows of control outside the cells that call the environment
Clients == {"p1", "p2"}
Requesters == {"r1", "r2"}
Callers == Clients \cup Requesters \cup Cells

Nil == "nil"
ErrQueueFull == "QueueFull"
ErrQueueStopped == "QueueStopped"
ErrCellNotFound == "CellNotFound"
ErrDuplicateCell == "DuplicateCell"
ErrCellInit == "CellInit"
ErrRecoveredTooOften == "RecoveredTooOften"
ErrEventRecovering == "EventRecovering"
ErrTimeout == "Timeout"
\* errors a behavior returns from ProcessEvent, Terminate and Recover
ErrBehavior == "BehaviorError"
ErrTerminate == "TerminateError"
ErrRecover == "RecoverError"

NoChan == "nochan"
\* the zero value received from the closed event channel of a stopped queue
NilEvent == [from |-> Nil, seq |-> 0, chan |-> NoChan]

VARIABLES
    registered,   \* registry: ids of the cell map
    graph,        \* registry: emitter id -> ordered subscriber ids
    wl,           \* registry write lock: the topology call that holds it
    pc,           \* per cell: position of its backend flow
    subscribers,  \* cell.subscribers, the loop's local snapshot
    queue,        \* cell.queue: buffered events
    qstopped,     \* cell.queue: Stop() was called
    shallStop,    \* loop: the "shall stop" signal is raised
    loopErr,      \* loop: terminal error
    rs,           \* loop: recoverings, as ages in seconds, oldest first
    checked,      \* loop: what the last checkRecovering returned, or "none"
    cur,          \* event passed to the ProcessEvent in progress
    emitIdx,      \* Emit: index of the next subscriber in the range loop
    emitGot,      \* Emit: subscribers whose processEvent was called, with result
    emitRes,      \* Emit: "none", "pending", or the returned error
    total,        \* monitoring variable cells/<env>/total-cells
    active,       \* number of ProcessEvent invocations in progress per cell
    sent,         \* per producer and cell: number (mod SeqMod) of the next push
    expect,       \* per cell and producer: number of the next event to process
    req,          \* per requester: state of its Request call
    numbered,     \* whether the pushes of a producer are numbered
    traced,       \* whether the last Subscribe is recorded in lastSub
    stopReturned, \* ids for which StopCell has returned
    subscribed,   \* emitter -> ids whose Subscribe returned and still stands
    initSt,       \* per cell: behavior.Init is "none", "running", "ok", "failed"
    terminates,   \* per cell: number of invocations of behavior.Terminate
    cleanups,     \* per cell: number of runs of cleanup, up to MaxCleanups
    lastSub       \* the last Subscribe, as long as no other mutation followed

cellVars == <<pc, subscribers, queue, qstopped, shallStop, loopErr, rs, cur, emitIdx, emitGot, emitRes, total, active>>
regVars == <<registered, graph, wl>>
fifoVars == <<sent, expect>>
vars == <<registered, graph, wl, pc, subscribers, queue, qstopped, shallStop,
          loopErr, rs, checked, cur, emitIdx, emitGot, emitRes, total, active, sent,
          expect, req, numbered, traced, stopReturned, subscribed, initSt, terminates,
          cleanups, lastSub>>
obsVars == <<numbered, traced, stopReturned, subscribed, checked>>
lifeVars == <<initSt, terminates, cleanups, lastSub>>

Range(s) == {s[i] : i \in 1..Len(s)}

(***************************************************************************)
(* EventQueue (contract, specification 3 and 4.2): a bounded FIFO mailbox. *)
(***************************************************************************)
\* result of Push(event) on the queue of cell c
PushResult(c) ==
    IF qstopped[c] THEN ErrQueueStopped
    ELSE IF Len(queue[c]) >= QueueCap THEN ErrQueueFull
    ELSE Nil

\* buffer of the queue of cell c after Push(e)
Push(c, e) ==
    IF PushResult(c) = Nil THEN Append(queue[c], e) ELSE queue[c]

\* Events(): the channel can deliver: a buffered event, or the zero value
\* once the queue is stopped and drained (the end of the sequence)
EventsReady(c) == queue[c] # <<>> \/ qstopped[c]

NextEvent(c) == IF queue[c] # <<>> THEN Head(queue[c]) ELSE NilEvent

\* buffer after Stop(): what is still buffered is drained to the reader or
\* dropped (implementation-defined)
QueueStop(c, drain) == IF drain THEN queue[c] ELSE <<>>

(***************************************************************************)
(* Supervised loop (contract, specification 4.3).                          *)
(***************************************************************************)
\* terminal error after Kill(err) or after the worker returned err: the
\* first error stands, so that Stop() surfaces a behavior's error
Kill(c, err) == IF loopErr[c] = Nil THEN err ELSE loopErr[c]

\* Recoverings.Frequency(num, dur): the num most recent recoverings lie
\* within dur; h holds ages, oldest first
Frequency(h, num, dur) ==
    /\ Len(h) >= num
    /\ h[Len(h) - num + 1] - h[Len(h)] <= dur

\* Recoverings.Trim(n): the n most recent recoverings
Trim(h, n) ==
    IF Len(h) <= n THEN h ELSE SubSeq(h, Len(h) - n + 1, Len(h))

\* ages grow with time; an age beyond a minute is kept as "more than a minute"
Older(h, d) ==
    [i \in 1..Len(h) |-> IF h[i] + d > Minute THEN Minute + 1 ELSE h[i] + d]

(***************************************************************************)
(* Cell (cells/cell.go).                                                   *)
(***************************************************************************)
Bump(n) == IF numbered THEN (n + 1) % SeqMod ELSE n

\* the event producer p pushes next into cell c
NewEvent(p, c, ch) == [from |-> p, seq |-> sent[p][c], chan |-> ch]

\* processEvent with an event that overtakes the buffered ones
processEventFront(c, e) ==
    [err |-> PushResult(c),
     q |-> IF PushResult(c) = Nil THEN <<e>> \o queue[c] ELSE queue[c]]

\* processEvent: the result of the queue's Push and the queue after it
processEvent(c, e) == [err |-> PushResult(c), q |-> Push(c, e)]

\* producer p has pushed into c with result err
Pushed(p, c, err) ==
    IF err = Nil THEN [sent EXCEPT ![p][c] = Bump(@)] ELSE sent

\* cleanup: stops the queue
cleanup(c, drain) ==
    /\ qstopped' = [qstopped EXCEPT ![c] = TRUE]
    /\ queue' = [queue EXCEPT ![c] = QueueStop(c, drain)]
    /\ cleanups' = [cleanups EXCEPT ![c] = IF @ < MaxCleanups THEN @ + 1 ELSE @]

\* the ProcessEvent invocation of cell c ends: its locals are gone
Return(c) ==
    /\ active' = [active EXCEPT ![c] = @ - 1]
    /\ cur' = [cur EXCEPT ![c] = NilEvent]
    /\ emitIdx' = [emitIdx EXCEPT ![c] = 1]
    /\ emitGot' = [emitGot EXCEPT ![c] = <<>>]
    /\ emitRes' = [emitRes EXCEPT ![c] = "none"]

\* the ProcessEvent invocation of cell c ends: its event has been seen
Seen(c) ==
    IF cur[c] = NilEvent THEN expect
    ELSE [expect EXCEPT ![c][cur[c].from] = Bump(@)]

\* backendLoop, entry: the monitoring variables are incremented
BackendEnter(c) ==
    /\ pc[c] = "start"
    /\ pc' = [pc EXCEPT ![c] = "select"]
    /\ total' = total + 1
    /\ UNCHANGED <<subscribers, queue, qstopped, shallStop, loopErr, rs, cur,
                   emitIdx, emitGot, emitRes, active>>
    /\ UNCHANGED <<regVars, fifoVars, req, obsVars, lifeVars>>

\* backendLoop, case <-c.loop.ShallStop(): return c.behavior.Terminate(),
\* then the deferred cleanup and decrements; the loop ends with the result
StopCase(c, result) ==
    /\ pc[c] = "select"
    /\ shallStop[c]
    /\ pc' = [pc EXCEPT ![c] = "done"]
    /\ cleanup(c, FALSE)
    /\ total' = total - 1
    /\ loopErr' = [loopErr EXCEPT ![c] = Kill(c, result)]
    /\ terminates' = [terminates EXCEPT ![c] = @ + 1]
    /\ UNCHANGED <<subscribers, shallStop, rs, cur, emitIdx, emitGot, emitRes,
                   active>>
    /\ UNCHANGED <<regVars, fifoVars, req, obsVars, initSt, lastSub>>

\* EventCase with the invocation started as a flow of its own: the loop
\* is back at its select while ProcessEvent runs
EventCaseAsync(c) ==
    /\ pc[c] = "select"
    /\ EventsReady(c)
    /\ cur' = [cur EXCEPT ![c] = NextEvent(c)]
    /\ queue' = [queue EXCEPT ![c] = IF @ = <<>> THEN @ ELSE Tail(@)]
    /\ active' = [active EXCEPT ![c] = @ + 1]
    /\ UNCHANGED <<pc, subscribers, qstopped, shallStop, loopErr, rs, emitIdx,
                   emitGot, emitRes, total>>
    /\ UNCHANGED <<regVars, fifoVars, req, obsVars, lifeVars>>

\* backendLoop, case event := <-c.queue.Events(): ProcessEvent is invoked
EventCase(c) ==
    /\ pc[c] = "select"
    /\ EventsReady(c)
    /\ cur' = [cur EXCEPT ![c] = NextEvent(c)]
    /\ queue' = [queue EXCEPT ![c] = IF @ = <<>> THEN @ ELSE Tail(@)]
    /\ pc' = [pc EXCEPT ![c] = "process"]
    /\ active' = [active EXCEPT ![c] = @ + 1]
    /\ UNCHANGED <<subscribers, qstopped, shallStop, loopErr, rs, emitIdx,
                   emitGot, emitRes, total>>
    /\ UNCHANGED <<regVars, fifoVars, req, obsVars, lifeVars>>

\* ProcessEvent returns nil: measuring.EndMeasuring(), next iteration
ProcessOk(c) ==
    /\ pc[c] = "process"
    /\ pc' = [pc EXCEPT ![c] = "select"]
    /\ Return(c)
    /\ expect' = Seen(c)
    /\ UNCHANGED <<subscribers, queue, qstopped, shallStop, loopErr, rs,
                   total>>
    /\ UNCHANGED <<regVars, sent, req, obsVars, lifeVars>>

\* ProcessEvent returns an error: c.loop.Kill(err); continue
ProcessError(c) ==
    /\ pc[c] = "process"
    /\ pc' = [pc EXCEPT ![c] = "select"]
    /\ Return(c)
    /\ expect' = Seen(c)
    /\ loopErr' = [loopErr EXCEPT ![c] = Kill(c, ErrBehavior)]
    /\ shallStop' = [shallStop EXCEPT ![c] = TRUE]
    /\ UNCHANGED <<subscribers, queue, qstopped, rs, total>>
    /\ UNCHANGED <<regVars, sent, req, obsVars, lifeVars>>

\* ProcessPanic without the deferred decrement of total-cells
ProcessPanicNoDecr(c, drain) ==
    /\ pc[c] = "process"
    /\ pc' = [pc EXCEPT ![c] = "panicked"]
    /\ Return(c)
    /\ expect' = Seen(c)
    /\ cleanup(c, drain)
    /\ rs' = [rs EXCEPT ![c] = Append(@, 0)]
    /\ UNCHANGED <<subscribers, shallStop, loopErr, total>>
    /\ UNCHANGED <<regVars, sent, req, obsVars, initSt, terminates, lastSub>>

\* ProcessEvent panics: the panic unwinds backendLoop, running its deferred
\* cleanup and decrements, and is caught by the supervisor, which records it
ProcessPanic(c, drain) ==
    /\ pc[c] = "process"
    /\ pc' = [pc EXCEPT ![c] = "panicked"]
    /\ Return(c)
    /\ expect' = Seen(c)
    /\ cleanup(c, drain)
    /\ total' = total - 1
    /\ rs' = [rs EXCEPT ![c] = Append(@, 0)]
    /\ UNCHANGED <<subscribers, shallStop, loopErr>>
    /\ UNCHANGED <<regVars, sent, req, obsVars, initSt, terminates, lastSub>>

\* checkRecovering: the error it returns, given the result of behavior.Recover
checkRecovering(h, recoverErr) ==
    IF Frequency(h, RecoverLimit, Minute) THEN ErrRecoveredTooOften
    ELSE IF recoverErr # Nil THEN ErrEventRecovering
    ELSE Nil

\* the supervisor after a panic: checkRecovering decides between the end of
\* the loop and the restart of the worker with the trimmed history
Recovering(c, recoverErr) ==
    /\ pc[c] = "panicked"
    /\ LET err == checkRecovering(rs[c], recoverErr) IN
         /\ checked' = [checked EXCEPT ![c] = err]
         /\ IF err # Nil
            THEN /\ pc' = [pc EXCEPT ![c] = "done"]
                 /\ loopErr' = [loopErr EXCEPT ![c] = Kill(c, err)]
                 /\ shallStop' = [shallStop EXCEPT ![c] = TRUE]
                 /\ rs' = rs
            ELSE /\ pc' = [pc EXCEPT ![c] = "start"]
                 /\ rs' = [rs EXCEPT ![c] = Trim(@, RecoverLimit)]
                 /\ UNCHANGED <<loopErr, shallStop>>
    /\ UNCHANGED <<subscribers, queue, qstopped, cur, emitIdx, emitGot,
                   emitRes, total, active>>
    /\ UNCHANGED <<regVars, fifoVars, req, lifeVars, numbered, traced,
                   stopReturned, subscribed>>

\* the behavior calls Context.Emit from ProcessEvent
EmitBegin(c) ==
    /\ pc[c] = "process"
    /\ emitIdx' = [emitIdx EXCEPT ![c] = 1]
    /\ emitGot' = [emitGot EXCEPT ![c] = <<>>]
    /\ IF subscribers[c] = <<>>
       THEN /\ emitRes' = [emitRes EXCEPT ![c] = Nil]
            /\ pc' = pc
       ELSE /\ emitRes' = [emitRes EXCEPT ![c] = "pending"]
            /\ pc' = [pc EXCEPT ![c] = "emit"]
    /\ UNCHANGED <<subscribers, queue, qstopped, shallStop, loopErr, rs, cur,
                   total, active>>
    /\ UNCHANGED <<regVars, fifoVars, req, obsVars, lifeVars>>

\* Emit that goes on with the next subscriber after a failed push and
\* returns the error at the end
EmitCollect(c) ==
    /\ pc[c] = "emit"
    /\ LET ec == subscribers[c][emitIdx[c]]
           r == processEvent(ec, NewEvent(c, ec, NoChan))
           last == emitIdx[c] = Len(subscribers[c])
           err == IF r.err # Nil THEN r.err
                  ELSE IF emitRes[c] = "pending" THEN Nil ELSE emitRes[c]
       IN /\ queue' = [queue EXCEPT ![ec] = r.q]
          /\ sent' = Pushed(c, ec, r.err)
          /\ emitGot' = [emitGot EXCEPT ![c] = IF r.err = Nil THEN Append(@, ec) ELSE @]
          /\ emitIdx' = [emitIdx EXCEPT ![c] = @ + 1]
          /\ emitRes' = [emitRes EXCEPT ![c] =
                            IF last THEN err
                            ELSE IF r.err # Nil THEN r.err ELSE @]
          /\ pc' = [pc EXCEPT ![c] = IF last THEN "process" ELSE @]
    /\ UNCHANGED <<subscribers, qstopped, shallStop, loopErr, rs, cur, total,
                   active>>
    /\ UNCHANGED <<regVars, expect, req, obsVars, lifeVars>>

\* Emit, one iteration of the range loop: ec.processEvent(event); the first
\* error is returned
Emit(c) ==
    /\ pc[c] = "emit"
    /\ LET ec == subscribers[c][emitIdx[c]]
           r == processEvent(ec, NewEvent(c, ec, NoChan))
           last == emitIdx[c] = Len(subscribers[c])
       IN /\ queue' = [queue EXCEPT ![ec] = r.q]
          /\ sent' = Pushed(c, ec, r.err)
          /\ IF r.err # Nil
             THEN /\ emitRes' = [emitRes EXCEPT ![c] = r.err]
                  /\ pc' = [pc EXCEPT ![c] = "process"]
                  /\ UNCHANGED <<emitIdx, emitGot>>
             ELSE /\ emitGot' = [emitGot EXCEPT ![c] = Append(@, ec)]
                  /\ emitIdx' = [emitIdx EXCEPT ![c] = @ + 1]
                  /\ emitRes' = [emitRes EXCEPT ![c] = IF last THEN Nil ELSE @]
                  /\ pc' = [pc EXCEPT ![c] = IF last THEN "process" ELSE @]
    /\ UNCHANGED <<subscribers, qstopped, shallStop, loopErr, rs, cur, total,
                   active>>
    /\ UNCHANGED <<regVars, expect, req, obsVars, lifeVars>>

(***************************************************************************)
(* Registry (contract, specification 4.5) behind the environment's         *)
(* StartCell, StopCell, Subscribe and Unsubscribe                          *)
(* (cells/environment.go).  A topology call holds the registry's write     *)
(* lock from its start to its return; wl is the call that holds it.        *)
(***************************************************************************)
NoCall == [kind |-> "none", by |-> Nil, em |-> Nil, ids |-> <<>>,
           stop |-> Nil, updates |-> <<>>]

\* no Subscribe whose effect still stands alone
NoSub == [em |-> Nil, ids |-> <<>>, before |-> {}]

RECURSIVE AddSubs(_, _)
\* the subscriber ids with ids added, deduplicating
AddSubs(list, ids) ==
    IF ids = <<>> THEN list
    ELSE AddSubs(IF Head(ids) \in Range(list) THEN list
                 ELSE Append(list, Head(ids)), Tail(ids))

\* the subscriber ids without the first of ids only
RemoveFirst(list, ids) == SelectSeq(list, LAMBDA x : x # Head(ids))

\* the subscriber ids without ids
RemoveSubs(list, ids) == SelectSeq(list, LAMBDA x : x \notin Range(ids))

\* a caller can enter the registry: a client at any time, a behavior from
\* where it waits for the lock
CanCall(by) == IF by \in Clients THEN TRUE ELSE pc[by] = "wlockwait"

Enter(by) == IF by \in Cells THEN [pc EXCEPT ![by] = "envcall"] ELSE pc

\* updateSubscribers: the send on the unbuffered c.subscriberc completes
\* when the backend loop of c receives in its select
updateSubscribers(c) == pc[c] = "select"

\* stop that only raises the stop signal, as c.loop.Kill(nil) would
stopNoWait(c) == TRUE

\* stop: c.loop.Stop() raises the stop signal and returns when the loop
\* has ended
stop(c) == pc[c] = "done"

\* StartCell that inserts the cell and returns before behavior.Init is called
StartCellEarly(c) ==
    /\ wl = NoCall
    /\ pc[c] = "none"
    /\ c \notin registered
    /\ pc' = [pc EXCEPT ![c] = "start"]
    /\ initSt' = [initSt EXCEPT ![c] = "running"]
    /\ registered' = registered \cup {c}
    /\ UNCHANGED <<subscribers, queue, qstopped, shallStop, loopErr, rs, cur,
                   emitIdx, emitGot, emitRes, total, active>>
    /\ UNCHANGED <<graph, wl, fifoVars, req, obsVars, terminates, cleanups,
                   lastSub>>

\* StartCell, up to the call of behavior.Init: under the registry's write
\* lock newCell launches the supervised loop and calls Init
StartCell(c) ==
    /\ wl = NoCall
    /\ pc[c] = "none"
    /\ c \notin registered
    /\ pc' = [pc EXCEPT ![c] = "start"]
    /\ initSt' = [initSt EXCEPT ![c] = "running"]
    /\ wl' = [NoCall EXCEPT !.kind = "startCell", !.em = c]
    /\ UNCHANGED <<subscribers, queue, qstopped, shallStop, loopErr, rs, cur,
                   emitIdx, emitGot, emitRes, total, active>>
    /\ UNCHANGED <<registered, graph, fifoVars, req, obsVars, terminates,
                   cleanups, lastSub>>

\* behavior.Init returns: with an error newCell returns the CellInit error
\* and no cell; otherwise the registry inserts the cell; StartCell returns
InitReturn(c, initErr) ==
    /\ initSt[c] = "running"
    /\ initSt' = [initSt EXCEPT ![c] = IF initErr = Nil THEN "ok" ELSE "failed"]
    /\ registered' = IF initErr = Nil THEN registered \cup {c} ELSE registered
    /\ wl' = NoCall
    /\ UNCHANGED cellVars
    /\ UNCHANGED <<graph, fifoVars, req, obsVars, terminates, cleanups,
                   lastSub>>

\* Subscribe(emitterID, subscriberIDs...): adds the edges and hands the new
\* snapshot to the emitter
Subscribe(by, em, ids) ==
    /\ wl = NoCall
    /\ CanCall(by)
    /\ ({em} \cup Range(ids)) \subseteq registered
    /\ graph' = [graph EXCEPT ![em] = AddSubs(@, ids)]
    /\ wl' = [kind |-> "subscribe", by |-> by, em |-> em, ids |-> ids,
              stop |-> Nil,
              updates |-> <<[cell |-> em, list |-> AddSubs(graph[em], ids)]>>]
    /\ pc' = Enter(by)
    /\ lastSub' = IF traced
                  THEN [em |-> em, ids |-> ids, before |-> Range(graph[em])]
                  ELSE lastSub
    /\ UNCHANGED <<subscribers, queue, qstopped, shallStop, loopErr, rs, cur,
                   emitIdx, emitGot, emitRes, total, active>>
    /\ UNCHANGED <<registered, fifoVars, req, obsVars, initSt, terminates,
                   cleanups>>

\* Unsubscribe(emitterID, subscriberIDs...): removes the edges and hands the
\* new snapshot to the emitter
Unsubscribe(by, em, ids) ==
    /\ wl = NoCall
    /\ CanCall(by)
    /\ ({em} \cup Range(ids)) \subseteq registered
    /\ graph' = [graph EXCEPT ![em] = RemoveSubs(@, ids)]
    /\ wl' = [kind |-> "unsubscribe", by |-> by, em |-> em, ids |-> ids,
              stop |-> Nil,
              updates |-> <<[cell |-> em, list |-> RemoveSubs(graph[em], ids)]>>]
    /\ pc' = Enter(by)
    /\ subscribed' = [subscribed EXCEPT ![em] = @ \ Range(ids)]
    /\ UNCHANGED <<subscribers, queue, qstopped, shallStop, loopErr, rs, cur,
                   emitIdx, emitGot, emitRes, total, active>>
    /\ UNCHANGED <<registered, fifoVars, req, lifeVars, numbered, traced,
                   stopReturned, checked>>

RECURSIVE LostUpdates(_, _, _)
\* the snapshots for the emitters (taken in the order of es) that lose id
LostUpdates(es, id, g) ==
    IF es = <<>> THEN <<>>
    ELSE IF id \in Range(g[Head(es)])
         THEN <<[cell |-> Head(es), list |-> RemoveSubs(g[Head(es)], <<id>>)]>>
              \o LostUpdates(Tail(es), id, g)
         ELSE LostUpdates(Tail(es), id, g)

CellOrder == <<"a", "b", "c">>

\* StopCell(id): removes the cell and its edges, stops the cell, then hands
\* the new snapshot to every emitter that lost it
StopCell(by, id) ==
    /\ wl = NoCall
    /\ CanCall(by)
    /\ id \in registered
    /\ registered' = registered \ {id}
    /\ graph' = [e \in Cells |->
                   IF e = id THEN <<>> ELSE RemoveSubs(graph[e], <<id>>)]
    /\ wl' = [kind |-> "stopCell", by |-> by, em |-> id, ids |-> <<>>,
              stop |-> id,
              updates |-> LostUpdates(SelectSeq(CellOrder, LAMBDA e : e # id),
                                      id, graph)]
    /\ shallStop' = [shallStop EXCEPT ![id] = TRUE]
    /\ pc' = Enter(by)
    /\ subscribed' = [e \in Cells |->
                        IF e = id THEN {} ELSE subscribed[e] \ {id}]
    /\ lastSub' = NoSub
    /\ UNCHANGED <<subscribers, queue, qstopped, loopErr, rs, cur, emitIdx,
                   emitGot, emitRes, total, active>>
    /\ UNCHANGED <<fifoVars, req, initSt, terminates, cleanups, numbered,
                   traced,
                   stopReturned, checked>>

\* StopCell: cell.stop() returns
StopWait ==
    /\ wl.stop # Nil
    /\ stop(wl.stop)
    /\ wl' = [wl EXCEPT !.stop = Nil]
    /\ UNCHANGED <<cellVars, registered, graph, fifoVars, req, obsVars,
                   lifeVars>>

\* SubscriberCase that receives the snapshot and does not install it
SubscriberCaseDrop(c) ==
    /\ wl.kind # "none"
    /\ wl.stop = Nil
    /\ wl.updates # <<>>
    /\ Head(wl.updates).cell = c
    /\ updateSubscribers(c)
    /\ wl' = [wl EXCEPT !.updates = Tail(@)]
    /\ UNCHANGED <<pc, subscribers, queue, qstopped, shallStop, loopErr, rs,
                   cur, emitIdx, emitGot, emitRes, total, active>>
    /\ UNCHANGED <<registered, graph, fifoVars, req, obsVars, lifeVars>>

\* backendLoop, case subscribers := <-c.subscriberc
SubscriberCase(c) ==
    /\ wl.kind # "none"
    /\ wl.stop = Nil
    /\ wl.updates # <<>>
    /\ Head(wl.updates).cell = c
    /\ updateSubscribers(c)
    /\ subscribers' = [subscribers EXCEPT ![c] = Head(wl.updates).list]
    /\ wl' = [wl EXCEPT !.updates = Tail(@)]
    /\ UNCHANGED <<pc, queue, qstopped, shallStop, loopErr, rs, cur, emitIdx,
                   emitGot, emitRes, total, active>>
    /\ UNCHANGED <<registered, graph, fifoVars, req, obsVars, lifeVars>>

\* the topology call returns and releases the write lock
TopologyReturn ==
    /\ wl.kind \notin {"none", "startCell"}
    /\ wl.stop = Nil
    /\ wl.updates = <<>>
    /\ wl' = NoCall
    /\ pc' = IF wl.by \in Cells THEN [pc EXCEPT ![wl.by] = "process"] ELSE pc
    /\ stopReturned' = IF wl.kind = "stopCell"
                       THEN stopReturned \cup {wl.em} ELSE stopReturned
    /\ subscribed' = IF wl.kind = "subscribe"
                     THEN [subscribed EXCEPT ![wl.em] = @ \cup Range(wl.ids)]
                     ELSE subscribed
    /\ lastSub' = IF wl.kind = "subscribe" THEN lastSub ELSE NoSub
    /\ UNCHANGED <<subscribers, queue, qstopped, shallStop, loopErr, rs, cur,
                   emitIdx, emitGot, emitRes, total, active>>
    /\ UNCHANGED <<registered, graph, fifoVars, req, initSt, terminates,
                   cleanups, numbered, traced, checked>>

\* environment.Emit(id, event): read-locked lookup of the cell, then its
\* processEvent
EnvEmit(p, id) ==
    /\ wl = NoCall
    /\ id \in registered
    /\ LET r == processEvent(id, NewEvent(p, id, NoChan)) IN
         /\ queue' = [queue EXCEPT ![id] = r.q]
         /\ sent' = Pushed(p, id, r.err)
    /\ UNCHANGED <<pc, subscribers, qstopped, shallStop, loopErr, rs, cur,
                   emitIdx, emitGot, emitRes, total, active>>
    /\ UNCHANGED <<regVars, expect, req, obsVars, lifeVars>>

\* a behavior calls the environment from inside ProcessEvent and has to wait
\* for the registry's lock: the read side (HasCell, Subscribers, Emit) or the
\* write side (Subscribe, Unsubscribe, StopCell)
BehaviorCall(c, side) ==
    /\ pc[c] = "process"
    /\ pc' = [pc EXCEPT ![c] = side]
    /\ UNCHANGED <<subscribers, queue, qstopped, shallStop, loopErr, rs, cur,
                   emitIdx, emitGot, emitRes, total, active>>
    /\ UNCHANGED <<regVars, fifoVars, req, obsVars, lifeVars>>

\* HasCell(id) called by the behavior of c: a read-locked lookup
HasCell(c) ==
    /\ pc[c] = "rlockwait"
    /\ wl = NoCall
    /\ pc' = [pc EXCEPT ![c] = "process"]
    /\ UNCHANGED <<subscribers, queue, qstopped, shallStop, loopErr, rs, cur,
                   emitIdx, emitGot, emitRes, total, active>>
    /\ UNCHANGED <<regVars, fifoVars, req, obsVars, lifeVars>>

\* the recoverings of the running loops after a minute
Aged == [c \in Cells |-> IF pc[c] = "done" THEN rs[c] ELSE Older(rs[c], Minute)]

\* a minute passes; the supervisor's handling of a panic takes no time
Tick ==
    /\ \A c \in Cells : pc[c] # "panicked"
    /\ rs # Aged
    /\ rs' = Aged
    /\ UNCHANGED <<pc, subscribers, queue, qstopped, shallStop, loopErr, cur,
                   emitIdx, emitGot, emitRes, total, active>>
    /\ UNCHANGED <<regVars, fifoVars, req, obsVars, lifeVars>>

(***************************************************************************)
(* Request (cells/environment.go) and the responding behavior.             *)
(***************************************************************************)
\* values a responder sends: a plain value or an error value
Responses == {"value", "error"}
Timeouts == {0, 1}

NoResult == [val |-> Nil, err |-> Nil]
\* st: position of the call; chan: buffer of the response channel; res: what
\* the call returned; emitted: the emission succeeded; answer: the value the
\* responder sent; elapsed: the timeout elapsed before a response was sent
IdleRequest == [st |-> "idle", timeout |-> 0, chan |-> <<>>, res |-> NoResult,
                emitted |-> FALSE, answer |-> Nil, elapsed |-> FALSE]

\* Response without the type assertion: every response is a value
ResponseAsValue(v) == [val |-> v, err |-> Nil]

\* what Request returns for a received response: an error value is
\* surfaced as the error
Response(v) ==
    IF v = "error" THEN [val |-> Nil, err |-> v] ELSE [val |-> v, err |-> Nil]

TimedOut == [val |-> Nil, err |-> ErrTimeout]

\* Request, up to the emission: the response channel travels in the payload;
\* an emission error is returned at once
Request(r, id, timeout) ==
    /\ req[r].st = "idle"
    /\ wl = NoCall
    /\ IF id \notin registered
       THEN /\ req' = [req EXCEPT ![r].st = "returned",
                                  ![r].res = [val |-> Nil, err |-> ErrCellNotFound]]
            /\ UNCHANGED <<queue, sent>>
       ELSE LET p == processEvent(id, NewEvent(r, id, r)) IN
              /\ queue' = [queue EXCEPT ![id] = p.q]
              /\ sent' = Pushed(r, id, p.err)
              /\ req' = IF p.err # Nil
                        THEN [req EXCEPT ![r].st = "returned",
                                         ![r].res = [val |-> Nil, err |-> p.err]]
                        ELSE [req EXCEPT ![r].st = "emitted",
                                         ![r].emitted = TRUE,
                                         ![r].timeout = timeout]
    /\ UNCHANGED <<pc, subscribers, qstopped, shallStop, loopErr, rs, cur,
                   emitIdx, emitGot, emitRes, total, active>>
    /\ UNCHANGED <<regVars, expect, obsVars, lifeVars>>

\* Request enters its select: a response already sent can be received; a
\* timeout of 0 has elapsed by then; otherwise the call waits
RequestSelect(r, takeResponse) ==
    /\ req[r].st = "emitted"
    /\ IF req[r].chan # <<>> /\ (takeResponse \/ req[r].timeout # 0)
       THEN req' = [req EXCEPT ![r].st = "returned",
                               ![r].res = Response(Head(req[r].chan)),
                               ![r].chan = Tail(@)]
       ELSE IF req[r].timeout = 0
       THEN req' = [req EXCEPT ![r].st = "returned", ![r].res = TimedOut,
                               ![r].elapsed = (req[r].answer = Nil)]
       ELSE req' = [req EXCEPT ![r].st = "waiting"]
    /\ UNCHANGED <<cellVars, regVars, fifoVars, obsVars, lifeVars>>

\* case <-time.After(timeout), while Request waits
RequestTimeout(r) ==
    /\ req[r].st = "waiting"
    /\ req' = [req EXCEPT ![r].st = "returned", ![r].res = TimedOut,
                          ![r].elapsed = (req[r].answer = Nil)]
    /\ UNCHANGED <<cellVars, regVars, fifoVars, obsVars, lifeVars>>

\* the behavior of c reads the response channel from the payload and starts
\* to send its one response
RespondBegin(c) ==
    /\ pc[c] = "process"
    /\ cur[c].chan # NoChan
    /\ req[cur[c].chan].answer = Nil
    /\ pc' = [pc EXCEPT ![c] = "respond"]
    /\ UNCHANGED <<subscribers, queue, qstopped, shallStop, loopErr, rs, cur,
                   emitIdx, emitGot, emitRes, total, active>>
    /\ UNCHANGED <<regVars, fifoVars, req, obsVars, lifeVars>>

\* the send on an unbuffered response channel: only a waiting receiver
\* lets it complete
CanSendUnbuffered(r) ==
    req[r].st = "waiting"

\* the send on the response channel can complete: a receiver waits in its
\* select or the buffer has room
CanSend(r) ==
    IF req[r].st = "waiting" THEN TRUE ELSE Len(req[r].chan) < ResponseChanCap

\* the send completes: handed to the waiting Request, or buffered
Respond(c, v) ==
    /\ pc[c] = "respond"
    /\ LET r == cur[c].chan IN
         /\ CanSend(r)
         /\ req' = IF req[r].st = "waiting"
                   THEN [req EXCEPT ![r].st = "returned",
                                    ![r].res = Response(v), ![r].answer = v]
                   ELSE [req EXCEPT ![r].chan = Append(@, v), ![r].answer = v]
    /\ pc' = [pc EXCEPT ![c] = "process"]
    /\ UNCHANGED <<subscribers, queue, qstopped, shallStop, loopErr, rs, cur,
                   emitIdx, emitGot, emitRes, total, active>>
    /\ UNCHANGED <<regVars, fifoVars, obsVars, lifeVars>>

(***************************************************************************)
(* Specifications.                                                         *)
(***************************************************************************)
\* NewEnvironment: an empty registry
NewEnvironment(n, t) ==
    /\ numbered = n
    /\ traced = t
    /\ registered = {}
    /\ graph = [c \in Cells |-> <<>>]
    /\ wl = NoCall
    /\ pc = [c \in Cells |-> "none"]
    /\ subscribers = [c \in Cells |-> <<>>]
    /\ queue = [c \in Cells |-> <<>>]
    /\ qstopped = [c \in Cells |-> FALSE]
    /\ shallStop = [c \in Cells |-> FALSE]
    /\ loopErr = [c \in Cells |-> Nil]
    /\ rs = [c \in Cells |-> <<>>]
    /\ checked = [c \in Cells |-> "none"]
    /\ cur = [c \in Cells |-> NilEvent]
    /\ emitIdx = [c \in Cells |-> 1]
    /\ emitGot = [c \in Cells |-> <<>>]
    /\ emitRes = [c \in Cells |-> "none"]
    /\ total = 0
    /\ active = [c \in Cells |-> 0]
    /\ sent = [p \in Callers |-> [c \in Cells |-> 0]]
    /\ expect = [c \in Cells |-> [p \in Callers |-> 0]]
    /\ req = [r \in Requesters |-> IdleRequest]
    /\ stopReturned = {}
    /\ subscribed = [c \in Cells |-> {}]
    /\ initSt = [c \in Cells |-> "none"]
    /\ terminates = [c \in Cells |-> 0]
    /\ cleanups = [c \in Cells |-> 0]
    /\ lastSub = NoSub

\* the backend flow of a cell whose behavior returns nil or an error
Backend(c) ==
    \/ BackendEnter(c)
    \/ StopCase(c, Nil)
    \/ SubscriberCase(c)
    \/ EventCase(c)
    \/ ProcessOk(c)
    \/ ProcessError(c)

\* A mesh: emitter "a" fans out to "b" and "c"; the topology changes while
\* events flow; behaviors return nil or an error, and that of "a" emits
MeshNext ==
    \/ \E c \in Cells : StartCell(c)
    \/ \E c \in Cells : InitReturn(c, Nil)
    \/ \E c \in Cells : Backend(c)
    \/ \E c \in {"a"} : EmitBegin(c)
    \/ \E c \in {"a"} : Emit(c)
    \/ \E id \in {"a"} : EnvEmit("p1", id)
    \/ \E ids \in {<<"b">>, <<"c">>, <<"b", "c">>} : Subscribe("p1", "a", ids)
    \/ \E ids \in {<<"b">>, <<"c">>, <<"b", "c">>} : Unsubscribe("p1", "a", ids)
    \/ \E id \in Cells : StopCell("p1", id)
    \/ StopWait
    \/ TopologyReturn

MeshInit == NewEnvironment(FALSE, FALSE)

\* Every flow of control that can run does run in the end; a select whose
\* case is ready again and again takes it in the end (the choice among the
\* ready cases is random); every ProcessEvent returns.  The clients are
\* free to stop calling.
MeshFairness ==
    /\ \A c \in Cells : WF_vars(Backend(c))
    /\ \A c \in Cells : SF_vars(SubscriberCase(c))
    /\ \A c \in Cells : SF_vars(StopCase(c, Nil))
    /\ \A c \in Cells : SF_vars(ProcessOk(c) \/ ProcessError(c))
    /\ WF_vars(Emit("a"))
    /\ WF_vars(StopWait \/ TopologyReturn)

MeshSpec == MeshInit /\ [][MeshNext]_vars /\ MeshFairness

\* the backend flow of a cell whose behavior also panics
PanickingBackend(c) ==
    \/ BackendEnter(c)
    \/ \E result \in {Nil, ErrTerminate} : StopCase(c, result)
    \/ SubscriberCase(c)
    \/ EventCase(c)
    \/ ProcessOk(c)
    \/ ProcessError(c)
    \/ \E drain \in BOOLEAN : ProcessPanic(c, drain)
    \/ \E recoverErr \in {Nil, ErrRecover} : Recovering(c, recoverErr)

\* One cell under two producers, subscriber updates, a stop request and
\* panics of its behavior
CellNext ==
    \/ StartCell("a")
    \/ \E initErr \in {Nil, ErrBehavior} : InitReturn("a", initErr)
    \/ PanickingBackend("a")
    \/ \E p \in Clients : EnvEmit(p, "a")
    \/ Subscribe("p1", "a", <<"a">>)
    \/ Unsubscribe("p1", "a", <<"a">>)
    \/ StopCell("p1", "a")
    \/ StopWait
    \/ TopologyReturn

CellInit == NewEnvironment(TRUE, FALSE)

CellSpec == CellInit /\ [][CellNext]_vars

\* One cell whose behavior panics, over time
RecoverNext ==
    \/ StartCell("a")
    \/ InitReturn("a", Nil)
    \/ BackendEnter("a")
    \/ \E result \in {Nil, ErrTerminate} : StopCase("a", result)
    \/ EventCase("a")
    \/ ProcessOk("a")
    \/ ProcessError("a")
    \/ \E drain \in BOOLEAN : ProcessPanic("a", drain)
    \/ \E recoverErr \in {Nil, ErrRecover} : Recovering("a", recoverErr)
    \/ EnvEmit("p1", "a")
    \/ Tick
    \/ StopCell("p1", "a")
    \/ StopWait
    \/ TopologyReturn

RecoverInit == NewEnvironment(FALSE, FALSE)

RecoverSpec == RecoverInit /\ [][RecoverNext]_vars

\* Requests to one cell whose behavior responds, at once or late
RequestNext ==
    \/ StartCell("a")
    \/ InitReturn("a", Nil)
    \/ BackendEnter("a")
    \/ EventCase("a")
    \/ ProcessOk("a")
    \/ RespondBegin("a")
    \/ \E v \in Responses : Respond("a", v)
    \/ \E r \in Requesters, id \in {"a", "b"}, t \in Timeouts : Request(r, id, t)
    \/ \E r \in Requesters, take \in BOOLEAN : RequestSelect(r, take)
    \/ \E r \in Requesters : RequestTimeout(r)

RequestInit == NewEnvironment(FALSE, FALSE)

RequestSpec == RequestInit /\ [][RequestNext]_vars

\* Topology calls of a client while the behavior of "a" calls the
\* environment from inside ProcessEvent
LockNext ==
    \/ \E c \in {"a", "b"} : StartCell(c)
    \/ \E c \in {"a", "b"} : InitReturn(c, Nil)
    \/ \E c \in {"a", "b"} : BackendEnter(c)
    \/ StopCase("b", Nil)
    \/ SubscriberCase("a")
    \/ EventCase("a")
    \/ ProcessOk("a")
    \/ EnvEmit("p1", "a")
    \/ \E side \in {"rlockwait", "wlockwait"} : BehaviorCall("a", side)
    \/ HasCell("a")
    \/ \E by \in {"p1", "a"} : Subscribe(by, "a", <<"b">>)
    \/ Unsubscribe("p1", "a", <<"b">>)
    \/ StopCell("p1", "b")
    \/ StopWait
    \/ TopologyReturn

LockInit == NewEnvironment(FALSE, FALSE)

LockSpec == LockInit /\ [][LockNext]_vars

\* lists of subscriber ids of a Subscribe or Unsubscribe
IdLists == {<<"b">>, <<"c">>, <<"b", "c">>}

\* Topology calls of a client on three idle cells
TopologyNext ==
    \/ \E c \in Cells : StartCell(c)
    \/ \E c \in Cells : InitReturn(c, Nil)
    \/ \E c \in Cells : BackendEnter(c)
    \/ \E c \in Cells : SubscriberCase(c)
    \/ \E c \in Cells : StopCase(c, Nil)
    \/ \E em \in {"a", "b"}, ids \in IdLists : Subscribe("p1", em, ids)
    \/ \E em \in {"a", "b"}, ids \in IdLists : Unsubscribe("p1", em, ids)
    \/ \E id \in Cells : StopCell("p1", id)
    \/ StopWait
    \/ TopologyReturn

TopologyInit == NewEnvironment(FALSE, TRUE)

TopologySpec == TopologyInit /\ [][TopologyNext]_vars

(***************************************************************************)
(* Properties.                                                             *)
(***************************************************************************)

\* C1: at most one invocation of behavior.ProcessEvent is in progress per
\* cell, under producers, subscriber updates, stop requests and restarts
\* after a panic.
C1_Sequential == \A c \in Cells : active[c] <= 1

\* ProcessEvent runs in a worker restarted after a panic, while a StopCell
\* waits for the cell
C1_Witness ==
    /\ active["a"] = 1
    /\ rs["a"] # <<>>
    /\ wl.kind = "stopCell"

\* C2: the events one producer pushed with success into a cell are passed
\* to ProcessEvent in the order of the pushes, whatever other producers
\* and subscriber updates interleave: the event in progress is the next
\* one of its producer.
C2_Fifo ==
    \A c \in Cells :
        (active[c] = 1 /\ cur[c] # NilEvent)
            => cur[c].seq = expect[c][cur[c].from]

\* the second event of p1 is in progress while an event of p2 is queued
C2_Witness ==
    /\ active["a"] = 1
    /\ cur["a"].from = "p1"
    /\ cur["a"].seq = 1
    /\ \E i \in 1..Len(queue["a"]) : queue["a"][i].from = "p2"

\* C4: once StopCell(I) has returned, no invocation of ProcessEvent of
\* cell I starts.
C4_NoProcessAfterStop ==
    [][\A c \in stopReturned : active'[c] <= active[c]]_vars

\* StopCell has returned for a cell that had an event of p1 queued, which
\* was never processed
C4_Witness ==
    /\ "a" \in stopReturned
    /\ sent["p1"]["a"] # expect["a"]["p1"]

\* the number of recoverings of the last minute
InWindow(h) == Cardinality({i \in 1..Len(h) : h[i] <= Minute})

C6_AliveAfterRecover ==
    \A c \in Cells :
        (checked[c] = Nil /\ ~shallStop[c] /\ pc[c] \in {"start", "select"})
            => PushResult(c) # ErrQueueStopped

\* the Emit of cell c has returned in the ProcessEvent in progress
Emitted(c) == emitRes[c] \notin {"none", "pending"}

NoDuplicates(list) ==
    \A i, j \in 1..Len(list) : list[i] = list[j] => i = j

\* C7: Emit offers the event to the subscribers of the snapshot in list
\* order: when the push to the k-th fails, Emit returns that error, the
\* subscribers before k have received the event once and none after k has;
\* when no push fails, every subscriber has received it once and Emit
\* returns nil.
C7_EmitFailFast ==
    \A c \in Cells :
        /\ NoDuplicates(subscribers[c])
        /\ Emitted(c) /\ emitRes[c] = Nil => emitGot[c] = subscribers[c]
        /\ Emitted(c) /\ emitRes[c] # Nil =>
             /\ emitIdx[c] <= Len(subscribers[c])
             /\ emitGot[c] = SubSeq(subscribers[c], 1, emitIdx[c] - 1)
             /\ emitRes[c] \in {ErrQueueFull, ErrQueueStopped}

\* the push to the second of two subscribers failed after the first one
\* had received the event
C7_Witness ==
    /\ subscribers["a"] = <<"b", "c">>
    /\ emitRes["a"] = ErrQueueFull
    /\ emitGot["a"] = <<"b">>

\* subscriber s was offered the event of the Emit of c that has returned:
\* its processEvent was called
Offered(c, s) ==
    \/ s \in Range(emitGot[c])
    \/ emitRes[c] # Nil /\ subscribers[c][emitIdx[c]] = s

\* the Emit of c has returned the error of a subscriber in front of s
FailedBefore(c, s) ==
    /\ emitRes[c] # Nil
    /\ \E i \in (emitIdx[c] + 1)..Len(subscribers[c]) : subscribers[c][i] = s

\* C3, as amended: after Subscribe(E, S) has returned and while no
\* Unsubscribe or StopCell removes S, the snapshot of E holds S and every
\* Emit of E calls the processEvent of S, unless the push to a subscriber
\* in front of S failed.
C3_OfferedUnlessFailedBefore ==
    \A e \in Cells : \A s \in subscribed[e] :
        /\ s \in Range(subscribers[e])
        /\ Emitted(e) => (Offered(e, s) \/ FailedBefore(e, s))

\* "c" is subscribed and has received the event of the Emit
C3_Witness ==
    /\ "c" \in subscribed["a"]
    /\ emitRes["a"] = Nil
    /\ "c" \in Range(emitGot["a"])

\* C3, as claimed: after Subscribe(E, S) has returned and while no
\* Unsubscribe removes S, from some point on every Emit of E pushes the
\* event into the queue of S.
C3_EventuallyAlwaysDelivered ==
    \A s \in {"b", "c"} :
        <>[][(pc["a"] = "emit" /\ pc'["a"] = "process" /\ s \in subscribed["a"])
               => s \in Range(emitGot'["a"])]_vars

RequestResults ==
    {[val |-> "value", err |-> Nil], [val |-> Nil, err |-> "error"], TimedOut}

\* C8: when its emission succeeded, Request returns the value the responder
\* sent, or the error value the responder sent as the error, or Timeout; a
\* response only if one was sent, and Timeout when the timeout elapsed
\* before a response was sent.
C8_RequestResult ==
    \A r \in Requesters :
        (req[r].st = "returned" /\ req[r].emitted) =>
            /\ req[r].res \in RequestResults
            /\ req[r].res # TimedOut =>
                 /\ req[r].answer # Nil
                 /\ req[r].res = IF req[r].answer = "error"
                                 THEN [val |-> Nil, err |-> req[r].answer]
                                 ELSE [val |-> req[r].answer, err |-> Nil]
            /\ req[r].elapsed => req[r].res = TimedOut
            /\ (req[r].timeout = 0 /\ req[r].answer = Nil) => req[r].res = TimedOut

\* one Request has returned the error its responder sent, the other one has
\* timed out with a timeout of 0
C8_Witness ==
    /\ req["r1"].st = "returned"
    /\ req["r1"].res = [val |-> Nil, err |-> "error"]
    /\ req["r2"].st = "returned"
    /\ req["r2"].timeout = 0
    /\ req["r2"].res = TimedOut

\* C9: a behavior that sends its one response on the response channel is
\* never blocked in that send, whether the Request still waits, has timed
\* out or has returned.
C9_ResponseNeverBlocks ==
    \A c \in Cells : pc[c] = "respond" => CanSend(cur[c].chan)

\* the response to a Request that has timed out is buffered, and the cell
\* of the responder processes its next event
C9_Witness ==
    /\ req["r1"].res = TimedOut
    /\ req["r1"].chan # <<>>
    /\ active["a"] = 1
    /\ cur["a"].from = "r2"

\* the topology call that holds the write lock waits to hand a snapshot to
\* cell c
HandsTo(c) ==
    /\ wl.kind # "none"
    /\ wl.stop = Nil
    /\ wl.updates # <<>>
    /\ Head(wl.updates).cell = c

\* C10: no deadlock under topology mutation: the holder of the write lock
\* never waits on the subscriber-update channel of a cell whose loop waits
\* for the registry (for its lock, or for the return of its own call).
C10_NoDeadlock ==
    \A c \in Cells :
        HandsTo(c) => pc[c] \notin {"rlockwait", "wlockwait", "envcall"}

\* the Unsubscribe in progress has the arguments of the last Subscribe, and
\* no other mutation of the topology lies between the two
RoundTrip ==
    /\ wl.kind = "unsubscribe"
    /\ lastSub.em = wl.em
    /\ lastSub.ids = wl.ids

\* C11, as claimed: Subscribe(E, S) followed by Unsubscribe(E, S) leaves the
\* subscribers of E equal, as a set, to their value before the Subscribe,
\* also when some id of S was subscribed to E beforehand.
C11_RoundTripRestores ==
    RoundTrip => Range(graph[wl.em]) = lastSub.before

\* C11, as amended: Subscribe(E, S) followed by Unsubscribe(E, S) leaves the
\* subscribers of E equal, as a set, to their value before the Subscribe
\* without the ids of S; the set is restored when no id of S was subscribed
\* to E beforehand.
C11_RoundTripRemoves ==
    RoundTrip =>
        /\ Range(graph[wl.em]) = lastSub.before \ Range(wl.ids)
        /\ lastSub.before \cap Range(wl.ids) = {}
              => Range(graph[wl.em]) = lastSub.before

\* a round trip with "b" and "c" on an emitter that had "b" subscribed
C11_Witness ==
    /\ RoundTrip
    /\ wl.em = "a"
    /\ wl.ids = <<"b", "c">>
    /\ lastSub.before = {"b"}

\* C12: behavior.Init is invoked once per StartCell, and no ProcessEvent of
\* the cell starts before Init has returned success, although the backend
\* loop is launched before Init is called.
C12_InitBeforeEvents ==
    \A c \in Cells :
        /\ (initSt[c] = "none") <=> (pc[c] = "none")
        /\ active[c] > 0 => initSt[c] = "ok"

\* the backend loop waits in its select while Init is still in progress
C12_Witness ==
    /\ initSt["a"] = "running"
    /\ pc["a"] = "select"

\* positions of a backend loop between its entry and its exit
Running ==
    {"select", "process", "emit", "respond", "rlockwait", "wlockwait", "envcall"}

\* the number of backend loops that are executing
Loops == Cardinality({c \in Cells : pc[c] \in Running})

\* C13: after behavior.Init returned an error nothing of the cell is left
\* running: its backend loop has terminated, its queue is stopped and the
\* total-cells counter is back at its value before the start.
C13_InitFailureAborts ==
    \A c \in Cells :
        initSt[c] = "failed" =>
            /\ pc[c] = "done"
            /\ qstopped[c]
            /\ total = Cardinality({d \in Cells \ {c} : pc[d] \in Running})

\* C14: Terminate is invoked at most once, and a cell whose loop has
\* terminated had its queue stopped and its Terminate invoked, on every
\* termination path.
C14_TerminateOnEveryPath ==
    \A c \in Cells :
        /\ terminates[c] <= 1
        /\ pc[c] = "done" => (qstopped[c] /\ terminates[c] = 1)

\* C15: over the lifetime of a cell whose loop has terminated, cleanup has
\* run exactly once.
C15_CleanupOnce ==
    \A c \in Cells : pc[c] = "done" => cleanups[c] = 1

\* C16: once ProcessEvent has returned an error, no further event is passed
\* to ProcessEvent of that cell, and that error is the terminal error.
C16_NoEventAfterError ==
    \A c \in Cells : loopErr[c] = ErrBehavior => active[c] = 0

\* no snapshot for cell c is still to be handed over by the topology call
\* in progress
NoUpdateFor(c) ==
    \A i \in 1..Len(wl.updates) : wl.updates[i].cell # c

\* C17: when the updates sent to a cell have returned, its snapshot is the
\* list last sent, which is the registry's list of its subscribers; every
\* ProcessEvent that starts then runs with it.
C17_SnapshotIsLastUpdate ==
    \A c \in registered :
        NoUpdateFor(c) => subscribers[c] = graph[c]

\* ProcessEvent of "a" runs with the snapshot of a Subscribe that has
\* returned after an Unsubscribe
C17_Witness ==
    /\ wl = NoCall
    /\ active["a"] = 1
    /\ subscribers["a"] = <<"c", "b">>

C19_UpdateReturns ==
    \A c \in registered : HandsTo(c) => pc[c] # "done"

\* C20: the total-cells counter equals the number of backend loops that
\* are executing.
C20_TotalCells == total = Loops

\* the worker restarted after a panic is counted once
C20_Witness ==
    /\ rs["a"] # <<>>
    /\ pc["a"] = "select"
    /\ total = 1

====
